---------------------------- MODULE Spec2Model ----------------------------
(***************************************************************************)
(* A model of src-wasm/src/lib.rs, the cryptographic core of the vault:    *)
(* the CryptoBridge session (key derivation, AES-256-GCM seal/unseal,      *)
(* password generators, TOTP, history rotation, zeroize on drop) and the   *)
(* standalone biometric derive/wrap/unwrap functions.                      *)
(*                                                                         *)
(* Conventions.  A byte is a number in 0..255 and a byte string a sequence *)
(* of bytes.  Text that goes through the cipher is a sequence of Unicode   *)
(* code points, encoded to and decoded from UTF-8 as Rust does.  Text of   *)
(* the generators and of the history codec is a sequence of one-character  *)
(* strings.  The primitives of the crates the file calls (argon2, aes_gcm, *)
(* serde_json, rand, totp_rs) are modelled at their interface: which       *)
(* inputs they reject, how they signal it (an Err or a panic) and that the *)
(* output is a function of the inputs; the arithmetic inside them is a     *)
(* small stand-in for the real round functions.                            *)
(***************************************************************************)
EXTENDS Integers, Sequences, FiniteSets, TLC

(***************************************************************************)
(* Bounds of the model                                                     *)
(***************************************************************************)
\* longest history list the caller hands to rotate_history
MaxHistLen == 6
\* rotations chained by the caller, each output fed to the next call
MaxRotations == 6
\* largest PasswordOptions.length
MaxGenLen == 5
\* seeds of the random source: a run of thread_rng yields seed + step * i
MaxSeed == 5

(***************************************************************************)
(* Program constants                                                       *)
(***************************************************************************)
\* master_key: [u8; 32], and the key size Aes256Gcm::new_from_slice accepts
KeyLen == 32
\* the size of Nonce (GenericArray<u8, U12>) that Nonce::from_slice asserts
NonceLen == 12
\* history.len() > 5 / history.truncate(5)
HistoryCap == 5
\* the 16-byte authentication tag Aes256Gcm appends to the ciphertext
TagLen == 16
\* argon2's MIN_SALT_LEN, the parameter check of hash_password_into
MinSaltLen == 8
\* (0..6) in generate_block
BlockLen == 6
\* TOTP::new(Algorithm::SHA1, 6, 1, 30, secret): digits and step
TotpDigits == 6
TotpStep == 30
\* totp_rs rejects a secret of fewer than 128 bits
TotpMinSecretBits == 128

Min(a, b) == IF a < b THEN a ELSE b

Zeros(n) == [i \in 1..n |-> 0]

\* the i-th element of s read cyclically (0 for the empty sequence)
Cyc(s, i) == IF s = <<>> THEN 0 ELSE s[((i - 1) % Len(s)) + 1]

(***************************************************************************)
(* str::as_bytes and String::from_utf8 (code points below 0x800)           *)
(***************************************************************************)
Utf8Char(cp) ==
    IF cp < 128 THEN <<cp>>
    ELSE <<192 + (cp \div 64), 128 + (cp % 64)>>

RECURSIVE as_bytes(_)
as_bytes(text) ==
    IF text = <<>> THEN <<>>
    ELSE Utf8Char(text[1]) \o as_bytes(Tail(text))

\* [ok, value]: the decoded text, or ok = FALSE for a malformed sequence
RECURSIVE from_utf8(_)
from_utf8(bytes) ==
    IF bytes = <<>> THEN [ok |-> TRUE, value |-> <<>>]
    ELSE IF bytes[1] < 128
    THEN LET rest == from_utf8(Tail(bytes))
         IN  [ok |-> rest.ok,
              value |-> IF rest.ok THEN <<bytes[1]>> \o rest.value ELSE <<>>]
    ELSE IF /\ bytes[1] >= 194 /\ bytes[1] <= 223
            /\ Len(bytes) >= 2 /\ bytes[2] >= 128 /\ bytes[2] <= 191
    THEN LET rest == from_utf8(Tail(Tail(bytes)))
         IN  [ok |-> rest.ok,
              value |-> IF rest.ok
                        THEN <<(bytes[1] - 192) * 64 + (bytes[2] - 128)>> \o rest.value
                        ELSE <<>>]
    ELSE [ok |-> FALSE, value |-> <<>>]

(***************************************************************************)
(* argon2: Argon2::default().hash_password_into(pwd, salt, out)            *)
(***************************************************************************)
\* the 32 bytes written to out; never the all-zero block
Argon2Bytes(pwd, salt) ==
    [i \in 1..KeyLen |->
        ((Cyc(pwd, i) * 7 + Cyc(salt, i) * 3 + Len(pwd) * 11 + Len(salt) + i) % 255) + 1]

\* the parameter checks come before any byte of out is written
hash_password_into(pwd, salt, out) ==
    IF Len(salt) < MinSaltLen
    THEN [ok |-> FALSE, out |-> out]
    ELSE [ok |-> TRUE, out |-> Argon2Bytes(pwd, salt)]

(***************************************************************************)
(* aes_gcm: Aes256Gcm::new_from_slice, Nonce::from_slice, encrypt, decrypt *)
(***************************************************************************)
\* Err(InvalidLength) unless the key is 32 bytes long
new_from_slice(key) == Len(key) = KeyLen

\* GenericArray::from_slice asserts the length: a panic, not an Err
NonceFromSliceOk(iv) == Len(iv) = NonceLen

KeyStream(key, nonce, i) ==
    (key[((i - 1) % KeyLen) + 1] + nonce[((i - 1) % NonceLen) + 1] + i) % 256

GcmTag(key, nonce, body) ==
    [j \in 1..TagLen |->
        (key[j] * 5 + key[j + TagLen] + Cyc(nonce, j) * 3 + Cyc(body, j) * 7
            + Len(body) + j) % 256]

AeadEncrypt(key, nonce, plain) ==
    LET body == [i \in 1..Len(plain) |-> (plain[i] + KeyStream(key, nonce, i)) % 256]
    IN  body \o GcmTag(key, nonce, body)

\* [ok, plain]: ok = FALSE when the tag does not verify
AeadDecrypt(key, nonce, data) ==
    IF Len(data) < TagLen THEN [ok |-> FALSE, plain |-> <<>>]
    ELSE LET n    == Len(data) - TagLen
             body == SubSeq(data, 1, n)
             tag  == SubSeq(data, n + 1, Len(data))
         IN  IF tag # GcmTag(key, nonce, body)
             THEN [ok |-> FALSE, plain |-> <<>>]
             ELSE [ok |-> TRUE,
                   plain |-> [i \in 1..n |->
                                (body[i] + 256 - KeyStream(key, nonce, i)) % 256]]

(***************************************************************************)
(* serde_json: to_string(&Vec<String>) and from_str::<Vec<String>>         *)
(* JSON text is a sequence of characters; the model's text holds letters,  *)
(* the quote, the backslash, the solidus, brackets, commas and spaces.     *)
(***************************************************************************)
RECURSIVE JsonEscape(_)
JsonEscape(s) ==
    IF s = <<>> THEN <<>>
    ELSE (IF s[1] \in {"\"", "\\"} THEN <<"\\", s[1]>> ELSE <<s[1]>>)
         \o JsonEscape(Tail(s))

JsonString(s) == <<"\"">> \o JsonEscape(s) \o <<"\"">>

RECURSIVE JsonElems(_)
JsonElems(list) ==
    IF list = <<>> THEN <<>>
    ELSE IF Len(list) = 1 THEN JsonString(list[1])
    ELSE JsonString(list[1]) \o <<",">> \o JsonElems(Tail(list))

to_string(list) == <<"[">> \o JsonElems(list) \o <<"]">>

RECURSIVE SkipWs(_, _)
SkipWs(t, i) == IF i <= Len(t) /\ t[i] = " " THEN SkipWs(t, i + 1) ELSE i

JsonFail == [ok |-> FALSE, value |-> <<>>, next |-> 0]

\* the characters of a string literal from position i, after its opening quote
RECURSIVE ParseChars(_, _, _)
ParseChars(t, i, acc) ==
    IF i > Len(t) THEN JsonFail
    ELSE IF t[i] = "\"" THEN [ok |-> TRUE, value |-> acc, next |-> i + 1]
    ELSE IF t[i] = "\\"
    THEN IF i + 1 <= Len(t) /\ t[i + 1] \in {"\"", "\\", "/"}
         THEN ParseChars(t, i + 2, Append(acc, t[i + 1]))
         ELSE JsonFail
    ELSE ParseChars(t, i + 1, Append(acc, t[i]))

\* the elements of a non-empty array from position i, up to its closing bracket
RECURSIVE ParseElems(_, _, _)
ParseElems(t, i, acc) ==
    IF i > Len(t) \/ t[i] # "\"" THEN JsonFail
    ELSE LET s == ParseChars(t, i + 1, <<>>)
             j == SkipWs(t, s.next)
         IN  IF ~s.ok \/ j > Len(t) THEN JsonFail
             ELSE IF t[j] = "," THEN ParseElems(t, SkipWs(t, j + 1), Append(acc, s.value))
             ELSE IF t[j] = "]"
             THEN [ok |-> TRUE, value |-> Append(acc, s.value), next |-> j + 1]
             ELSE JsonFail

\* [ok, value]: the decoded list, or ok = FALSE for text that is no array of
\* strings (trailing characters included)
from_str(t) ==
    LET i == SkipWs(t, 1)
    IN  IF i > Len(t) \/ t[i] # "[" THEN [ok |-> FALSE, value |-> <<>>]
        ELSE LET j == SkipWs(t, i + 1)
                 r == IF j <= Len(t) /\ t[j] = "]"
                      THEN [ok |-> TRUE, value |-> <<>>, next |-> j + 1]
                      ELSE ParseElems(t, j, <<>>)
             IN  IF r.ok /\ SkipWs(t, r.next) > Len(t)
                 THEN [ok |-> TRUE, value |-> r.value]
                 ELSE [ok |-> FALSE, value |-> <<>>]

(***************************************************************************)
(* rand: thread_rng, gen_range, SliceRandom::shuffle / choose              *)
(* One call's random source is a stream rng = [seed, step]; its k-th draw  *)
(* (from 0) in the range 0..n is (seed + step * k) % n.                    *)
(***************************************************************************)
gen_range(rng, k, n) == (rng.seed + rng.step * k) % n

Swap(v, a, b) == [v EXCEPT ![a] = v[b], ![b] = v[a]]

\* for i in (1..len).rev() { self.swap(i, gen_index(rng, i + 1)) }
RECURSIVE ShuffleFrom(_, _, _, _)
ShuffleFrom(v, i, rng, k) ==
    IF i < 1 THEN v
    ELSE ShuffleFrom(Swap(v, i + 1, gen_range(rng, k, i + 1) + 1), i - 1, rng, k + 1)

shuffle(v, rng, k) == ShuffleFrom(v, Len(v) - 1, rng, k)

(***************************************************************************)
(* CryptoBridge::generate_password_core                                    *)
(***************************************************************************)
lowercase ==
    <<"a", "b", "c", "d", "e", "f", "g", "h", "i", "j", "k", "l", "m",
      "n", "o", "p", "q", "r", "s", "t", "u", "v", "w", "x", "y", "z">>
uppercase ==
    <<"A", "B", "C", "D", "E", "F", "G", "H", "I", "J", "K", "L", "M",
      "N", "O", "P", "Q", "R", "S", "T", "U", "V", "W", "X", "Y", "Z">>
numbers == <<"0", "1", "2", "3", "4", "5", "6", "7", "8", "9">>
\* the grave accent, which a TLA+ string cannot hold, is written "grave"
symbols ==
    <<"!", "@", "#", "$", "%", "^", "&", "*", "(", ")", "_", "+", "~",
      "grave", "|", "}", "{", "[", "]", ":", ";", "?", ">", "<", ",", ".",
      "/", "-", "=">>

\* if enabled { charset.push_str(class); guaranteed_chars.push(one of class) }
AddClass(st, enabled, class, rng) ==
    IF enabled
    THEN [charset    |-> st.charset \o class,
          guaranteed |-> Append(st.guaranteed, class[gen_range(rng, st.k, Len(class)) + 1]),
          k          |-> st.k + 1]
    ELSE st

\* mutant: fills the whole length from the charset and adds no guaranteed
\* character
generate_password_core_NoGuarantee(options, rng) ==
    LET s0 == [charset    |-> lowercase,
               guaranteed |-> <<lowercase[gen_range(rng, 0, Len(lowercase)) + 1]>>,
               k          |-> 1]
        s1 == AddClass(s0, options.use_uppercase, uppercase, rng)
        s2 == AddClass(s1, options.use_numbers, numbers, rng)
        s3 == AddClass(s2, options.use_symbols, symbols, rng)
        g  == Len(s3.guaranteed)
    IN  IF options.length < g
        THEN SubSeq(s3.guaranteed, 1, options.length)
        ELSE LET fill == [j \in 1..options.length |->
                            s3.charset[gen_range(rng, s3.k + j - 1, Len(s3.charset)) + 1]]
             IN  shuffle(fill, rng, s3.k + options.length)

\* mutant: a short length returns the last guaranteed characters, not the first
generate_password_core_TakeLast(options, rng) ==
    LET s0 == [charset    |-> lowercase,
               guaranteed |-> <<lowercase[gen_range(rng, 0, Len(lowercase)) + 1]>>,
               k          |-> 1]
        s1 == AddClass(s0, options.use_uppercase, uppercase, rng)
        s2 == AddClass(s1, options.use_numbers, numbers, rng)
        s3 == AddClass(s2, options.use_symbols, symbols, rng)
        g  == Len(s3.guaranteed)
    IN  IF options.length < g
        THEN SubSeq(s3.guaranteed, g - options.length + 1, g)
        ELSE LET fill == [j \in 1..(options.length - g) |->
                            s3.charset[gen_range(rng, s3.k + j - 1, Len(s3.charset)) + 1]]
             IN  shuffle(fill \o s3.guaranteed, rng, s3.k + (options.length - g))

generate_password_core(options, rng) ==
    LET s0 == [charset    |-> lowercase,
               guaranteed |-> <<lowercase[gen_range(rng, 0, Len(lowercase)) + 1]>>,
               k          |-> 1]
        s1 == AddClass(s0, options.use_uppercase, uppercase, rng)
        s2 == AddClass(s1, options.use_numbers, numbers, rng)
        s3 == AddClass(s2, options.use_symbols, symbols, rng)
        g  == Len(s3.guaranteed)
    IN  IF options.length < g
        THEN SubSeq(s3.guaranteed, 1, options.length)
        ELSE LET fill == [j \in 1..(options.length - g) |->
                            s3.charset[gen_range(rng, s3.k + j - 1, Len(s3.charset)) + 1]]
             IN  shuffle(fill \o s3.guaranteed, rng, s3.k + (options.length - g))

(***************************************************************************)
(* CryptoBridge::generate_mac_password                                     *)
(***************************************************************************)
\* mutant: the whole alphanumeric alphabet, ambiguous characters included
mac_charset_Ambiguous == lowercase \o uppercase \o numbers

mac_charset ==
    <<"a", "b", "c", "d", "e", "f", "g", "h", "i", "j", "k", "m", "n",
      "o", "p", "q", "r", "s", "t", "u", "v", "w", "x", "y", "z", "A",
      "B", "C", "D", "E", "F", "G", "H", "J", "K", "L", "M", "N", "P",
      "Q", "R", "S", "T", "U", "V", "W", "X", "Y", "Z", "2", "3", "4",
      "5", "6", "7", "8", "9">>

\* the b-th call (from 0) of the closure generate_block
generate_block(rng, b) ==
    [j \in 1..BlockLen |->
        mac_charset[gen_range(rng, b * BlockLen + j - 1, Len(mac_charset)) + 1]]

generate_mac_password(rng) ==
    generate_block(rng, 0) \o <<"-">> \o generate_block(rng, 1) \o <<"-">>
        \o generate_block(rng, 2)

(***************************************************************************)
(* CryptoBridge::generate_passphrase: a sequence of words and hyphens      *)
(***************************************************************************)
words ==
    <<"azure", "bright", "cloud", "dance", "eagle", "forest", "glory",
      "honey", "island", "jungle", "knight", "lemon", "mountain",
      "night", "ocean", "pearl", "quartz", "river", "silver", "tiger",
      "unique", "valley", "winter", "xenon", "yellow", "zebra", "alpha",
      "bravo", "cactus", "delta", "echo", "frost", "garden", "harvest",
      "icon", "jade", "karma", "lunar", "magic", "nebula", "orbit",
      "plasma", "quest", "rocket", "solar", "terra", "ultra", "vivid",
      "wave", "yield">>

PhraseLen == 4

RECURSIVE Join(_, _)
Join(list, sep) ==
    IF list = <<>> THEN <<>>
    ELSE IF Len(list) = 1 THEN <<list[1]>>
    ELSE <<list[1], sep>> \o Join(Tail(list), sep)

generate_passphrase(rng) ==
    Join([j \in 1..PhraseLen |-> words[gen_range(rng, j - 1, Len(words)) + 1]], "-")

(***************************************************************************)
(* CryptoBridge::get_totp_code_internal, with the wall clock as an input   *)
(* (seconds since the epoch; a negative value is a clock before the epoch) *)
(***************************************************************************)
Base32Alphabet ==
    <<"A", "B", "C", "D", "E", "F", "G", "H", "I", "J", "K", "L", "M", "N",
      "O", "P", "Q", "R", "S", "T", "U", "V", "W", "X", "Y", "Z",
      "2", "3", "4", "5", "6", "7">>

\* the 5-bit value of each character of the alphabet
Base32Value ==
    [c \in {Base32Alphabet[v] : v \in 1..Len(Base32Alphabet)} |->
        (CHOOSE v \in 1..Len(Base32Alphabet) : Base32Alphabet[v] = c) - 1]

\* Secret::Encoded(s).to_bytes(): [ok, symbols, nbytes]
Base32Decode(secret) ==
    IF \A i \in 1..Len(secret) : secret[i] \in DOMAIN Base32Value
    THEN [ok |-> TRUE,
          symbols |-> [i \in 1..Len(secret) |-> Base32Value[secret[i]]],
          nbytes |-> (Len(secret) * 5) \div 8]
    ELSE [ok |-> FALSE, symbols |-> <<>>, nbytes |-> 0]

Pow10(n) == IF n = 0 THEN 1 ELSE IF n = 1 THEN 10 ELSE IF n = 2 THEN 100
            ELSE IF n = 3 THEN 1000 ELSE IF n = 4 THEN 10000
            ELSE IF n = 5 THEN 100000 ELSE 1000000

\* format!("{:0width$}", code): zero-padded decimal digits
Digits(n, width) == [i \in 1..width |-> numbers[((n \div Pow10(width - i)) % 10) + 1]]

\* the stand-in for the truncated HMAC-SHA1 of the counter under the secret
HotpValue(secret_symbols, counter) ==
    Cyc(secret_symbols, 1) * 29791 + Cyc(secret_symbols, 2) * 961
        + Cyc(secret_symbols, 3) * 31 + Len(secret_symbols) + counter * 13

\* [kind, msg, val]
get_totp_code_internal(secret, now) ==
    LET dec == Base32Decode(secret)
    IN  IF ~dec.ok THEN [kind |-> "err", msg |-> "TOTP bytes error", val |-> <<>>]
        ELSE IF dec.nbytes * 8 < TotpMinSecretBits
        THEN [kind |-> "err", msg |-> "TOTP init error", val |-> <<>>]
        ELSE IF now < 0
        THEN [kind |-> "err", msg |-> "TOTP generation error", val |-> <<>>]
        ELSE [kind |-> "ok", msg |-> "",
              val |-> Digits(HotpValue(dec.symbols, now \div TotpStep) % Pow10(TotpDigits),
                             TotpDigits)]

(***************************************************************************)
(* CryptoBridge::rotate_history_internal: [kind, msg, val]                 *)
(***************************************************************************)
\* mutant: keeps the tail of the list instead of its head
truncate_KeepTail(list, n) ==
    IF Len(list) > n THEN SubSeq(list, Len(list) - n + 1, Len(list)) ELSE list

truncate(list, n) == IF Len(list) > n THEN SubSeq(list, 1, n) ELSE list

\* mutant: pushes the password at the end of the list instead of the front
rotate_history_Append(current_password, history_json) ==
    LET parsed == from_str(history_json)
    IN  IF ~parsed.ok
        THEN [kind |-> "err", msg |-> "History parse error", val |-> <<>>]
        ELSE LET inserted == Append(parsed.value, current_password)
             IN  [kind |-> "ok", msg |-> "",
                  val |-> to_string(IF Len(inserted) > HistoryCap
                                    THEN SubSeq(inserted, 1, HistoryCap)
                                    ELSE inserted)]

rotate_history_internal(current_password, history_json) ==
    LET parsed == from_str(history_json)
    IN  IF ~parsed.ok
        THEN [kind |-> "err", msg |-> "History parse error", val |-> <<>>]
        ELSE LET inserted == <<current_password>> \o parsed.value
                 history  == IF Len(inserted) > HistoryCap
                             THEN truncate(inserted, HistoryCap)
                             ELSE inserted
             IN  [kind |-> "ok", msg |-> "", val |-> to_string(history)]

(***************************************************************************)
(* The bodies of the fallible operations, each returning [kind, msg, val]: *)
(* kind "ok" with the value, "err" with the stage named by the message, or *)
(* "panic" when the call aborts instead of returning.                      *)
(***************************************************************************)
Ok(v) == [kind |-> "ok", msg |-> "", val |-> v]
Err(m) == [kind |-> "err", msg |-> m, val |-> <<>>]
Panic(m) == [kind |-> "panic", msg |-> m, val |-> <<>>]
NoResult == [kind |-> "none", msg |-> "", val |-> <<>>]

\* new_internal: the result, the key the session is built with, and what the
\* local buffer master_key holds when the function returns
new_internal(password, salt) ==
    LET r == hash_password_into(as_bytes(password), salt, Zeros(KeyLen))
    IN  IF ~r.ok
        THEN [res |-> Err("Argon2 error"), key |-> <<>>, local |-> r.out]
        ELSE [res |-> Ok(<<>>), key |-> r.out, local |-> r.out]

encrypt_internal(master_key, plaintext, iv) ==
    IF ~new_from_slice(master_key) THEN Err("Cipher init error")
    ELSE IF ~NonceFromSliceOk(iv) THEN Panic("Nonce::from_slice")
    ELSE Ok(AeadEncrypt(master_key, iv, as_bytes(plaintext)))

\* mutant: opens under an all-zero nonce instead of the caller's
decrypt_internal_ZeroNonce(master_key, ciphertext, iv) ==
    IF ~new_from_slice(master_key) THEN Err("Cipher init error")
    ELSE IF ~NonceFromSliceOk(iv) THEN Panic("Nonce::from_slice")
    ELSE LET d == AeadDecrypt(master_key, Zeros(NonceLen), ciphertext)
         IN  IF ~d.ok THEN Err("Decryption error")
             ELSE LET u == from_utf8(d.plain)
                  IN  IF u.ok THEN Ok(u.value) ELSE Err("UTF-8 error")

decrypt_internal(master_key, ciphertext, iv) ==
    IF ~new_from_slice(master_key) THEN Err("Cipher init error")
    ELSE IF ~NonceFromSliceOk(iv) THEN Panic("Nonce::from_slice")
    ELSE LET d == AeadDecrypt(master_key, iv, ciphertext)
         IN  IF ~d.ok THEN Err("Decryption error")
             ELSE LET u == from_utf8(d.plain)
                  IN  IF u.ok THEN Ok(u.value) ELSE Err("UTF-8 error")

BioSalt == <<87, 101, 98, 86, 97, 117, 108, 116, 95, 66, 105, 111, 83, 97, 108, 116>>

derive_bio_key(credential_id) ==
    LET r == hash_password_into(credential_id, BioSalt, Zeros(KeyLen))
    IN  IF ~r.ok THEN Err("Argon2 error") ELSE Ok(r.out)

\* mutant: seals under an all-zero nonce instead of the caller's
wrap_password_ZeroNonce(password, bio_key, iv) ==
    IF ~new_from_slice(bio_key) THEN Err("Cipher init error")
    ELSE IF ~NonceFromSliceOk(iv) THEN Panic("Nonce::from_slice")
    ELSE Ok(AeadEncrypt(bio_key, Zeros(NonceLen), as_bytes(password)))

wrap_password(password, bio_key, iv) ==
    IF ~new_from_slice(bio_key) THEN Err("Cipher init error")
    ELSE IF ~NonceFromSliceOk(iv) THEN Panic("Nonce::from_slice")
    ELSE Ok(AeadEncrypt(bio_key, iv, as_bytes(password)))

unwrap_password(wrapped_data, bio_key, iv) ==
    IF ~new_from_slice(bio_key) THEN Err("Cipher init error")
    ELSE IF ~NonceFromSliceOk(iv) THEN Panic("Nonce::from_slice")
    ELSE LET d == AeadDecrypt(bio_key, iv, wrapped_data)
         IN  IF ~d.ok THEN Err("Unwrapping error")
             ELSE LET u == from_utf8(d.plain)
                  IN  IF u.ok THEN Ok(u.value) ELSE Err("UTF-8 error")

\* mutant: a drop that leaves the buffer as it is
zeroize_Noop(buf) == buf

\* Zeroize for [u8; 32]
zeroize(buf) == [i \in 1..Len(buf) |-> 0]

(***************************************************************************)
(* Inputs                                                                  *)
(***************************************************************************)
\* the CryptoBridge objects a caller may construct
SessionIds == {"s1", "s2"}
\* master passwords "p" and "pwd"
Passwords == {<<112>>, <<112, 119, 100>>}
\* "salt" (shorter than argon2 accepts) and "salt-123456789012"
ShortSalt == <<115, 97, 108, 116>>
GoodSalt == <<115, 97, 108, 116, 45, 49, 50, 51, 52, 53, 54, 55, 56, 57, 48, 49, 50>>
Salts == {ShortSalt, GoodSalt}
\* "hi" and e-acute (U+00E9, two bytes of UTF-8)
Plaintexts == {<<104, 105>>, <<233>>}
\* two 12-byte nonces, one a byte short, one a byte long
Nonces == {Zeros(NonceLen), [i \in 1..NonceLen |-> 1],
           Zeros(NonceLen - 1), Zeros(NonceLen + 1)}
\* credential identifiers "id" and "key"
Credentials == {<<105, 100>>, <<107, 101, 121>>}

\* entries of a history, with characters the codec must escape
HistStrings == {<<"a">>, <<"\"", "\\">>}
\* passwords rotated in; "a" may reappear
RotatePasswords == {<<"a">>, <<"x", "\"">>}
HistoryLists(n) == UNION {[1..k -> HistStrings] : k \in 0..n}
\* the list written as the test writes it: a space after each comma
RECURSIVE SpacedElems(_)
SpacedElems(list) ==
    IF list = <<>> THEN <<>>
    ELSE IF Len(list) = 1 THEN JsonString(list[1])
    ELSE JsonString(list[1]) \o <<",", " ">> \o SpacedElems(Tail(list))
Spaced(list) == <<"[">> \o SpacedElems(list) \o <<"]", " ">>
\* texts that are no array of strings
Malformed == {<<>>, <<"[">>, <<"[", "\"", "a", "\"", ",", "]">>,
              <<"[", "\"", "\\", "a", "\"", "]">>, <<"[", "]", "]">>,
              <<"[", "a", "]">>}

AllOptions ==
    [length : 0..MaxGenLen, use_uppercase : BOOLEAN,
     use_numbers : BOOLEAN, use_symbols : BOOLEAN]
RngSteps == {0, 1, 9, 26}
Rngs == [seed : 0..MaxSeed, step : RngSteps]

\* the test's secret (30 bytes), a 10-byte secret, and one that is no Base32
Secret16 == <<"J", "B", "S", "W", "Y", "3", "D", "P", "E", "H", "P", "K", "3", "P", "X", "P">>
Secrets == {Secret16 \o Secret16 \o Secret16, Secret16, <<"J", "B", "1">>}
Clocks == {-1, 1700000000}

(***************************************************************************)
(* State                                                                   *)
(***************************************************************************)
VARIABLES
    sessions,   \* per CryptoBridge: status, the master_key buffer, and (ghost)
                \* the credentials it was built from and the zeroize count
    scratch,    \* what new_internal's local buffer held when new returned,
                \* until the next call reuses the stack; <<>> when nothing
                \* is left of it or the session was built in place
    vault,      \* the caller's storage: the last sealed entry
    history,    \* the caller's storage: the encoded history list
    hist0,      \* (ghost) the text the history chain started from
    pushed,     \* (ghost) the passwords rotated in since, oldest first
    held_key,   \* the caller's biometric key, from the last derive_bio_key
    held_cred,   \* (ghost) the credential held_key was derived from
    wrapped,    \* the caller's storage: the wrapped master password
    call,       \* the last call and its arguments
    result      \* what the last call returned: [kind, msg, val]

vars == <<sessions, scratch, vault, history, hist0, pushed,
          held_key, held_cred, wrapped, call, result>>

NoSession == [status |-> "none", master_key |-> <<>>, password |-> <<>>,
              salt |-> <<>>, zeroized |-> 0]
NoVault == [set |-> FALSE, ct |-> <<>>, iv |-> <<>>, plain |-> <<>>,
            password |-> <<>>, salt |-> <<>>, by |-> ""]
NoWrapped == [set |-> FALSE, data |-> <<>>, iv |-> <<>>, password |-> <<>>,
              cred |-> <<>>, rederived |-> FALSE]

Live(s) == sessions[s].status = "live"

sessionVars == <<sessions, vault>>
historyVars == <<history, hist0, pushed>>
bioVars == <<held_key, held_cred, wrapped>>

(***************************************************************************)
(* Construction and disposal                                               *)
(***************************************************************************)
\* CryptoBridge::new.  Moving the local master_key into the struct is a
\* bitwise copy the compiler may or may not elide: copied says which.
New(s, password, salt, copied) ==
    /\ sessions[s].status = "none"
    /\ LET r == new_internal(password, salt)
       IN  /\ result' = r.res
           /\ IF r.res.kind = "ok"
              THEN /\ sessions' = [sessions EXCEPT ![s] =
                          [status |-> "live", master_key |-> r.key,
                           password |-> password, salt |-> salt, zeroized |-> 0]]
                   /\ scratch' = IF copied THEN r.local ELSE <<>>
              ELSE /\ sessions' = sessions
                   /\ scratch' = r.local
    /\ call' = [op |-> "new", session |-> s, password |-> password, salt |-> salt]
    /\ UNCHANGED <<vault, historyVars, bioVars>>

\* impl Drop for CryptoBridge
Drop(s) ==
    /\ Live(s)
    /\ sessions' = [sessions EXCEPT ![s].status = "dropped",
                                    ![s].master_key = zeroize(sessions[s].master_key),
                                    ![s].zeroized = sessions[s].zeroized + 1]
    /\ call' = [op |-> "drop", session |-> s]
    /\ result' = NoResult
    /\ scratch' = <<>>
    /\ UNCHANGED <<vault, historyVars, bioVars>>

(***************************************************************************)
(* Methods of a live session                                               *)
(***************************************************************************)
\* CryptoBridge::encrypt; the caller stores what it gets
Encrypt(s, plaintext, iv) ==
    /\ Live(s)
    /\ LET r == encrypt_internal(sessions[s].master_key, plaintext, iv)
       IN  /\ result' = r
           /\ vault' = IF r.kind = "ok"
                       THEN [set |-> TRUE, ct |-> r.val, iv |-> iv, plain |-> plaintext,
                             password |-> sessions[s].password,
                             salt |-> sessions[s].salt, by |-> s]
                       ELSE vault
    /\ call' = [op |-> "encrypt", session |-> s, plaintext |-> plaintext, iv |-> iv]
    /\ scratch' = <<>>
    /\ UNCHANGED <<sessions, historyVars, bioVars>>

\* what a caller may hand to decrypt: the stored entry, the entry with a byte
\* changed, a text too short to hold a tag, and bytes sealed elsewhere under
\* the session's key that are no UTF-8
Tamper(ct) == IF ct = <<>> THEN <<0>> ELSE [ct EXCEPT ![1] = (ct[1] + 1) % 256]
CiphertextInputs(s, iv) ==
    {vault.ct, Tamper(vault.ct), <<1, 2, 3>>}
    \cup (IF Live(s) /\ Len(iv) = NonceLen
          THEN {AeadEncrypt(sessions[s].master_key, iv, <<255>>)} ELSE {})

\* CryptoBridge::decrypt
Decrypt(s, ciphertext, iv) ==
    /\ Live(s)
    /\ result' = decrypt_internal(sessions[s].master_key, ciphertext, iv)
    /\ call' = [op |-> "decrypt", session |-> s, ciphertext |-> ciphertext, iv |-> iv]
    /\ scratch' = <<>>
    /\ UNCHANGED <<sessionVars, historyVars, bioVars>>

\* CryptoBridge::generate_password, after the options are parsed
GeneratePassword(s, options, rng) ==
    /\ Live(s)
    /\ result' = Ok(generate_password_core(options, rng))
    /\ call' = [op |-> "generate_password", session |-> s, options |-> options]
    /\ scratch' = <<>>
    /\ UNCHANGED <<sessionVars, historyVars, bioVars>>

GenerateMacPassword(s, rng) ==
    /\ Live(s)
    /\ result' = Ok(generate_mac_password(rng))
    /\ call' = [op |-> "generate_mac_password", session |-> s]
    /\ scratch' = <<>>
    /\ UNCHANGED <<sessionVars, historyVars, bioVars>>

GeneratePassphrase(s, rng) ==
    /\ Live(s)
    /\ result' = Ok(generate_passphrase(rng))
    /\ call' = [op |-> "generate_passphrase", session |-> s]
    /\ scratch' = <<>>
    /\ UNCHANGED <<sessionVars, historyVars, bioVars>>

\* CryptoBridge::get_totp_code at wall-clock time now
GetTotpCode(s, secret, now) ==
    /\ Live(s)
    /\ result' = get_totp_code_internal(secret, now)
    /\ call' = [op |-> "get_totp_code", session |-> s, secret |-> secret]
    /\ scratch' = <<>>
    /\ UNCHANGED <<sessionVars, historyVars, bioVars>>

\* CryptoBridge::rotate_history on the stored history; the caller stores the
\* list it gets back and keeps the old one when the call fails
RotateHistory(s, current_password) ==
    /\ Live(s)
    /\ Len(pushed) < MaxRotations
    /\ LET r == rotate_history_internal(current_password, history)
       IN  /\ result' = r
           /\ history' = IF r.kind = "ok" THEN r.val ELSE history
           /\ pushed' = IF r.kind = "ok" THEN Append(pushed, current_password) ELSE pushed
    /\ call' = [op |-> "rotate_history", session |-> s,
                current_password |-> current_password, history_json |-> history]
    /\ scratch' = <<>>
    /\ UNCHANGED <<sessionVars, hist0, bioVars>>

(***************************************************************************)
(* Standalone biometric functions                                          *)
(***************************************************************************)
DeriveBioKey(credential_id) ==
    /\ LET r == derive_bio_key(credential_id)
       IN  /\ result' = r
           /\ held_key' = IF r.kind = "ok" THEN r.val ELSE held_key
           /\ held_cred' = IF r.kind = "ok" THEN credential_id ELSE held_cred
    /\ wrapped' = IF wrapped.set THEN [wrapped EXCEPT !.rederived = TRUE] ELSE wrapped
    /\ call' = [op |-> "derive_bio_key", credential_id |-> credential_id]
    /\ scratch' = <<>>
    /\ UNCHANGED <<sessionVars, historyVars>>

\* the keys a caller may pass: the derived one, and it a byte short or long
BioKeyInputs ==
    {held_key, held_key \o <<0>>}
    \cup (IF held_key = <<>> THEN {} ELSE {SubSeq(held_key, 1, Len(held_key) - 1)})

WrapPassword(password, key, iv) ==
    /\ LET r == wrap_password(password, key, iv)
       IN  /\ result' = r
           /\ wrapped' = IF r.kind = "ok"
                         THEN [set |-> TRUE, data |-> r.val, iv |-> iv,
                               password |-> password, cred |-> held_cred,
                               rederived |-> FALSE]
                         ELSE wrapped
    /\ call' = [op |-> "wrap_password", password |-> password, key |-> key, iv |-> iv]
    /\ scratch' = <<>>
    /\ UNCHANGED <<sessionVars, historyVars, held_key, held_cred>>

UnwrapPassword(data, key, iv) ==
    /\ result' = unwrap_password(data, key, iv)
    /\ call' = [op |-> "unwrap_password", wrapped_data |-> data, key |-> key, iv |-> iv]
    /\ scratch' = <<>>
    /\ UNCHANGED <<sessionVars, historyVars, bioVars>>

(***************************************************************************)
(* Specifications                                                          *)
(***************************************************************************)
Init ==
    /\ sessions = [s \in SessionIds |-> NoSession]
    /\ scratch = <<>>
    /\ vault = NoVault
    /\ history = to_string(<<>>)
    /\ hist0 = history
    /\ pushed = <<>>
    /\ held_key = <<>>
    /\ held_cred = <<>>
    /\ wrapped = NoWrapped
    /\ call = [op |-> "none"]
    /\ result = NoResult

\* the inputs of the session's key-independent methods in the life-cycle
\* specification, where the history is rotated once; SpecGen and SpecHistory
\* range over the full sets and over chains of rotations
SessionOptions ==
    {[length |-> 1, use_uppercase |-> TRUE, use_numbers |-> TRUE, use_symbols |-> TRUE],
     [length |-> 3, use_uppercase |-> TRUE, use_numbers |-> FALSE, use_symbols |-> FALSE]}
SessionRngs == {[seed |-> 0, step |-> 1]}

\* the life of the sessions: construction, every method, disposal
Next ==
    \E s \in SessionIds :
        \/ \E password \in Passwords, salt \in Salts, copied \in BOOLEAN :
               New(s, password, salt, copied)
        \/ Drop(s)
        \/ \E plaintext \in Plaintexts, iv \in Nonces : Encrypt(s, plaintext, iv)
        \/ \E iv \in Nonces : \E ciphertext \in CiphertextInputs(s, iv) :
               Decrypt(s, ciphertext, iv)
        \/ \E options \in SessionOptions, rng \in SessionRngs :
               GeneratePassword(s, options, rng)
        \/ \E rng \in SessionRngs : GenerateMacPassword(s, rng)
        \/ \E rng \in SessionRngs : GeneratePassphrase(s, rng)
        \/ \E secret \in Secrets, now \in Clocks : GetTotpCode(s, secret, now)
        \/ (pushed = <<>> /\ RotateHistory(s, <<"a">>))

Spec == Init /\ [][Next]_vars

\* a session built from ("p", "salt-123456789012"), as the unit tests build it
Fixture ==
    [s \in SessionIds |->
        IF s = "s1"
        THEN [status |-> "live", master_key |-> new_internal(<<112>>, GoodSalt).key,
              password |-> <<112>>, salt |-> GoodSalt, zeroized |-> 0]
        ELSE NoSession]

InitFixture ==
    /\ sessions = Fixture
    /\ scratch = <<>>
    /\ vault = NoVault
    /\ pushed = <<>>
    /\ held_key = <<>>
    /\ held_cred = <<>>
    /\ wrapped = NoWrapped
    /\ call = [op |-> "none"]
    /\ result = NoResult

\* the generators over every option record and random stream
InitGen ==
    /\ InitFixture
    /\ history = to_string(<<>>)
    /\ hist0 = history

NextGen ==
    \E s \in SessionIds, rng \in Rngs :
        \/ \E options \in AllOptions : GeneratePassword(s, options, rng)
        \/ GenerateMacPassword(s, rng)
        \/ GeneratePassphrase(s, rng)

SpecGen == InitGen /\ [][NextGen]_vars

\* chains of rotations from every stored history
HistoryInputs ==
    {to_string(h) : h \in HistoryLists(MaxHistLen)}
    \cup {Spaced(h) : h \in HistoryLists(2)}
    \cup Malformed

InitHistory ==
    /\ InitFixture
    /\ history \in HistoryInputs
    /\ hist0 = history

NextHistory ==
    \E s \in SessionIds, p \in RotatePasswords : RotateHistory(s, p)

SpecHistory == InitHistory /\ [][NextHistory]_vars

\* the biometric unlock path, which needs no session
NextBio ==
    \/ \E c \in Credentials : DeriveBioKey(c)
    \/ \E password \in Passwords, key \in BioKeyInputs, iv \in Nonces :
           WrapPassword(password, key, iv)
    \/ \E data \in {wrapped.data, Tamper(wrapped.data)}, key \in BioKeyInputs,
          iv \in Nonces :
           UnwrapPassword(data, key, iv)

SpecBio == Init /\ [][NextBio]_vars

(***************************************************************************)
(* Properties                                                              *)
(***************************************************************************)
Range(seq) == {seq[i] : i \in 1..Len(seq)}

\* the enabled character classes in the order the generator visits them
EnabledClasses(options) ==
    <<lowercase>>
        \o (IF options.use_uppercase THEN <<uppercase>> ELSE <<>>)
        \o (IF options.use_numbers THEN <<numbers>> ELSE <<>>)
        \o (IF options.use_symbols THEN <<symbols>> ELSE <<>>)

\* C1: rotate_history(p, H) on a decodable history H of n entries returns the
\* list of min(n + 1, 5) entries whose first is p and whose next min(n, 4)
\* are H's first entries in their order: the tail is dropped, nothing is
\* reordered or deduplicated.
C1_RotatePrependsAndTruncates ==
    (call.op = "rotate_history" /\ from_str(call.history_json).ok) =>
        LET H == from_str(call.history_json).value
            R == from_str(result.val)
        IN  /\ result.kind = "ok"
            /\ R.ok
            /\ Len(R.value) = Min(Len(H) + 1, 5)
            /\ R.value[1] = call.current_password
            /\ \A i \in 1..Min(Len(H), 4) : R.value[i + 1] = H[i]

\* a full history (and one entry more) was rotated: the tail was dropped
C1_Witness ==
    /\ call.op = "rotate_history"
    /\ result.kind = "ok"
    /\ from_str(call.history_json).ok
    /\ Len(from_str(call.history_json).value) = 6
    /\ call.current_password \in Range(from_str(call.history_json).value)

\* C2: along a chain of rotations p1 .. pn from a history of at most 5
\* entries, the stored history has at most 5 entries and is most-recent-first:
\* the min(n, 5) last passwords rotated in, newest first and repeats kept,
\* then the surviving head of the initial history.
C2_HistoryCapAndOrder ==
    (from_str(hist0).ok /\ Len(from_str(hist0).value) <= 5) =>
        LET H0  == from_str(hist0).value
            cur == from_str(history)
            n   == Len(pushed)
            m   == Min(n, 5)
        IN  /\ cur.ok
            /\ Len(cur.value) <= 5
            /\ Len(cur.value) = Min(n + Len(H0), 5)
            /\ \A i \in 1..m : cur.value[i] = pushed[n - i + 1]
            /\ \A j \in 1..(Len(cur.value) - m) : cur.value[m + j] = H0[j]

\* two rotations of the same password into a full history: both copies are
\* kept, three initial entries survive, two were dropped
C2_Witness ==
    /\ from_str(hist0).ok
    /\ Len(from_str(hist0).value) = 5
    /\ Len(pushed) = 2
    /\ pushed[1] = pushed[2]
    /\ call.op = "rotate_history"
    /\ result.kind = "ok"

\* C3: decrypting a stored entry under the nonce it was sealed with, in a
\* session built from the same (password, salt) as the one that sealed it,
\* succeeds and returns exactly the plaintext.
C3_EncryptDecryptRoundTrip ==
    (/\ call.op = "decrypt"
     /\ vault.set
     /\ call.ciphertext = vault.ct
     /\ call.iv = vault.iv
     /\ sessions[call.session].password = vault.password
     /\ sessions[call.session].salt = vault.salt)
    => result = Ok(vault.plain)

\* a second session, built after the sealing one was dropped, opened a
\* two-byte character sealed under a nonce that is not all zeros
C3_Witness ==
    /\ call.op = "decrypt"
    /\ vault.set
    /\ call.ciphertext = vault.ct
    /\ call.iv = vault.iv
    /\ call.iv # Zeros(NonceLen)
    /\ call.session # vault.by
    /\ sessions[vault.by].status = "dropped"
    /\ sessions[call.session].password = vault.password
    /\ sessions[call.session].salt = vault.salt
    /\ vault.plain = <<233>>
    /\ result.kind = "ok"

\* C4: a call of encrypt, decrypt, wrap_password or unwrap_password with a
\* nonce that is not 12 bytes long, or (wrap, unwrap) a key that is not 32
\* bytes long, returns a "Cipher init error" result: it neither aborts nor
\* yields a ciphertext or plaintext.
C4_LengthErrorsAreReturned ==
    (/\ call.op \in {"encrypt", "decrypt", "wrap_password", "unwrap_password"}
     /\ \/ Len(call.iv) # 12
        \/ (call.op \in {"wrap_password", "unwrap_password"} /\ Len(call.key) # 32))
    => (result.kind = "err" /\ result.msg = "Cipher init error")

\* C5: with a length L of at least the number of enabled classes,
\* generate_password returns L characters with at least one of every enabled
\* class, whatever the random source yields.
C5_GuaranteedDiversity ==
    (/\ call.op = "generate_password"
     /\ call.options.length >= Len(EnabledClasses(call.options)))
    => /\ result.kind = "ok"
       /\ Len(result.val) = call.options.length
       /\ \A c \in 1..Len(EnabledClasses(call.options)) :
              Range(result.val) \cap Range(EnabledClasses(call.options)[c]) # {}

\* all four classes in five characters, the filler drawn from one class only
C5_Witness ==
    /\ call.op = "generate_password"
    /\ call.options = [length |-> 5, use_uppercase |-> TRUE,
                       use_numbers |-> TRUE, use_symbols |-> TRUE]
    /\ Cardinality(Range(result.val) \cap Range(lowercase)) = 2

\* C6: with a length L below the number of enabled classes, generate_password
\* returns exactly L characters, the i-th from the i-th enabled class in the
\* order lowercase, uppercase, numbers, symbols (no shuffle); L = 1 gives a
\* single lowercase letter.
C6_ShortLengthTakesFirstGuaranteed ==
    (/\ call.op = "generate_password"
     /\ call.options.length < Len(EnabledClasses(call.options)))
    => /\ result.kind = "ok"
       /\ Len(result.val) = call.options.length
       /\ \A i \in 1..call.options.length :
              result.val[i] \in Range(EnabledClasses(call.options)[i])

\* three characters asked of four enabled classes
C6_Witness ==
    /\ call.op = "generate_password"
    /\ call.options = [length |-> 3, use_uppercase |-> TRUE,
                       use_numbers |-> TRUE, use_symbols |-> TRUE]
    /\ Len(result.val) = 3
    /\ result.val[3] \in Range(numbers)

\* C7: generate_mac_password returns 20 characters with a hyphen at indices 6
\* and 13 (from 0) and nowhere else, every other character from the fixed
\* alphabet, which holds none of 0, O, 1, l, I.
C7_MacFormat ==
    (call.op = "generate_mac_password") =>
        /\ result.kind = "ok"
        /\ Len(result.val) = 20
        /\ \A i \in 1..20 :
              IF i \in {7, 14} THEN result.val[i] = "-"
              ELSE /\ result.val[i] # "-"
                   /\ result.val[i] \in Range(mac_charset)
                   /\ result.val[i] \notin {"0", "O", "1", "l", "I"}

\* a block password whose three blocks differ and that holds a digit
C7_Witness ==
    /\ call.op = "generate_mac_password"
    /\ Len(result.val) = 20
    /\ SubSeq(result.val, 1, 6) # SubSeq(result.val, 8, 13)
    /\ SubSeq(result.val, 8, 13) # SubSeq(result.val, 15, 20)
    /\ Range(result.val) \cap Range(numbers) # {}

\* C8: while a session lives its key buffer holds the derived key, whatever
\* was called on it; when it is dropped the buffer is zeroized exactly once
\* and holds only zero bytes from then on.
C8_KeyKeptThenErasedOnce ==
    \A s \in SessionIds :
        /\ sessions[s].status = "none" => sessions[s].zeroized = 0
        /\ sessions[s].status = "live" =>
              /\ sessions[s].master_key
                     = new_internal(sessions[s].password, sessions[s].salt).key
              /\ Len(sessions[s].master_key) = 32
              /\ sessions[s].master_key # Zeros(32)
              /\ sessions[s].zeroized = 0
        /\ sessions[s].status = "dropped" =>
              /\ sessions[s].master_key = Zeros(32)
              /\ sessions[s].zeroized = 1

\* a session that sealed an entry was dropped, while another one lives
C8_Witness ==
    \E s, t \in SessionIds :
        /\ sessions[s].status = "dropped"
        /\ vault.set
        /\ vault.by = s
        /\ sessions[t].status = "live"
        /\ call.op = "drop"
        /\ call.session = s

\* C9: after new_session, failed or not, no buffer outside a session holds
\* key bytes: a failed call returns an "Argon2 error" and installs no session,
\* and the buffer that received the key holds only zeros when it is released.
C9_NoKeyMaterialOutsideSession ==
    (call.op = "new") =>
        /\ result.kind = "err" =>
              /\ result.msg = "Argon2 error"
              /\ sessions[call.session].status = "none"
        /\ \A i \in 1..Len(scratch) : scratch[i] = 0

\* C10: unwrapping the stored blob with the key derived again from the same
\* credential identifier, under the nonce it was wrapped with, succeeds and
\* returns exactly the wrapped password; the derived key is 32 bytes long.
C10_BioWrapRoundTrip ==
    /\ (call.op = "derive_bio_key") => (result.kind = "ok" /\ Len(result.val) = 32)
    /\ (/\ call.op = "unwrap_password"
        /\ wrapped.set
        /\ call.wrapped_data = wrapped.data
        /\ call.iv = wrapped.iv
        /\ call.key = held_key
        /\ held_cred = wrapped.cred)
       => result = Ok(wrapped.password)

\* the key was derived again between the wrap and the unwrap
C10_Witness ==
    /\ call.op = "unwrap_password"
    /\ wrapped.set
    /\ wrapped.rederived
    /\ call.wrapped_data = wrapped.data
    /\ call.iv = wrapped.iv
    /\ call.iv # Zeros(NonceLen)
    /\ call.key = held_key
    /\ held_cred = wrapped.cred
    /\ wrapped.password = <<112, 119, 100>>
    /\ result.kind = "ok"

==========================================================================
